---- MODULE Spec2Model ----
(***************************************************************************)
(* Model of crunchy-cli-core/src/utils/log.rs: the CliLogger sink, its     *)
(* progress slot (Mutex<Option<ProgressBar>>), and the producer surface    *)
(* (progress!, progress_pause!, ProgressHandler::stop / Drop).             *)
(*                                                                         *)
(* Strings are sequences of one-character strings, so that is_empty,       *)
(* starts_with, replacen and format! are computed as the code computes     *)
(* them.  Severity follows the log crate: Off = 0 < Error < Warn < Info <  *)
(* Debug < Trace.                                                          *)
(***************************************************************************)
EXTENDS Integers, Sequences, FiniteSets, TLC

\* ------------------------------------------------------------------ bounds
\* Number of calls made by the producers: begin-progress, stop, drop, pause,
\* and records handed to the sink directly.
MaxCalls == 4
\* Number of lines written (all streams together).
MaxLines == 2
\* Number of scope guards handed out.
MaxGuards == 2

Threads == {1, 2}

\* ------------------------------------------------------------- log levels
Off == 0
Error == 1
Warn == 2
Info == 3
Debug == 4
Trace == 5

LevelFilters == Off .. Trace
Levels == Error .. Trace

LevelName(l) ==
    CASE l = Error -> "ERROR"
      [] l = Warn -> "WARN"
      [] l = Info -> "INFO"
      [] l = Debug -> "DEBUG"
      [] l = Trace -> "TRACE"

\* ---------------------------------------------------------------- strings
T_progress == <<"p", "r", "o", "g", "r", "e", "s", "s">>
T_pause == <<"_", "p", "a", "u", "s", "e">>
T_end == <<"_", "e", "n", "d">>
T_progress_pause == T_progress \o T_pause
T_progress_end == T_progress \o T_end
T_crunchy_cli == <<"c", "r", "u", "n", "c", "h", "y", "_", "c", "l", "i">>
T_crunchy_cli_core == T_crunchy_cli \o <<"_", "c", "o", "r", "e">>
T_crunchy == <<"c", "r", "u", "n", "c", "h", "y">>

ReservedTargets == {T_progress, T_progress_pause, T_progress_end}
\* Targets of the records handed to the sink: the reserved tags, the crate's
\* own module path, and a foreign one (a proper prefix of the application
\* prefix).
Targets == ReservedTargets \cup {T_crunchy_cli_core, T_crunchy}

EmptyMsg == <<>>
Msgs == {EmptyMsg, <<"m">>}

\* str::starts_with
StartsWith(s, p) == Len(s) >= Len(p) /\ SubSeq(s, 1, Len(p)) = p

\* Index of the first occurrence of pat in s, 0 when there is none.
FindFirst(s, pat) ==
    LET hits == {i \in 1 .. (Len(s) - Len(pat) + 1) :
                    SubSeq(s, i, i + Len(pat) - 1) = pat}
    IN  IF hits = {} THEN 0 ELSE CHOOSE i \in hits : \A j \in hits : i <= j

\* str::replacen(pat, to, 1)
Replace1(s, pat, to) ==
    LET i == FindFirst(s, pat)
    IN  IF i = 0 THEN s
        ELSE SubSeq(s, 1, i - 1) \o to \o SubSeq(s, i + Len(pat), Len(s))

\* ------------------------------------------------------------------ state
VARIABLES
    level,      \* CliLogger.level
    maxLevel,   \* the log crate's process-wide maximum level (set_max_level)
    progress,   \* CliLogger.progress: the slot, None or a ProgressBar
    lock,       \* holder of the slot's Mutex, 0 when free
    pc,         \* per thread: where it stands inside CliLogger::log
    rec,        \* per thread: the record its log call is handling
    stop,       \* per thread: the `stop` argument of its call of progress()
    ctx,        \* per thread: what the caller does when log returns
    handlers,   \* the ProgressHandler values handed out
    out,        \* lines written to standard output (println!)
    err,        \* lines written to standard error (eprintln!)
    above,      \* lines handed to a spinner's println (print-above)
    live,       \* spinners constructed and not yet finished
    finished,   \* finished spinners with their final message and draw target
    nextId,     \* identity of the next spinner constructed
    calls       \* calls made by the producers

sink == <<progress, out, err, above, live, finished, nextId>>
vars == <<level, maxLevel, progress, lock, pc, rec, stop, ctx, handlers,
          out, err, above, live, finished, nextId, calls>>

None == [id |-> 0, msg |-> EmptyMsg, hidden |-> FALSE]
NoRec == [level |-> Off, target |-> <<>>, msg |-> EmptyMsg]
NoCtx == [k |-> "none", g |-> 0]

Guards == 1 .. MaxGuards

\* ProgressHandler { stopped }, with the bookkeeping of its lifetime: st is
\* "unborn" before progress! is called, "pending" while its log call runs,
\* "alive" while a scope holds it, "moved" once stop(self) or the end of its
\* scope has taken it, "dead" after its destructor;
\* ends holds the messages of the "progress_end" records it emitted.
NewHandler == [st |-> "alive", stopped |-> FALSE, ends |-> <<>>]
Unborn == [st |-> "unborn", stopped |-> FALSE, ends |-> <<>>]

Init ==
    /\ level \in LevelFilters
    /\ maxLevel = level
    /\ progress = None
    /\ lock = 0
    /\ pc = [t \in Threads |-> "idle"]
    /\ rec = [t \in Threads |-> NoRec]
    /\ stop = [t \in Threads |-> FALSE]
    /\ ctx = [t \in Threads |-> NoCtx]
    /\ handlers = [g \in Guards |-> Unborn]
    /\ out = <<>>
    /\ err = <<>>
    /\ above = <<>>
    /\ live = {}
    /\ finished = {}
    /\ nextId = 1
    /\ calls = 0

is_some(p) == p.id # 0

\* ----------------------------------------------------------- sink: log()
\* enabled against the process-wide maximum level, not the sink's own.
enabledByMaxLevel(r) == r.level <= maxLevel

\* Log::enabled
enabled(r) == r.level <= level

IsReserved(target) ==
    \/ target = T_progress
    \/ target = T_progress_pause
    \/ target = T_progress_end

\* Admitted without the test of the application prefix.
AdmittedAnyTarget(r) == enabled(r)

\* The negation of the early-return condition of log().
Admitted(r) ==
    /\ enabled(r)
    /\ (IsReserved(r.target) \/ StartsWith(r.target, T_crunchy_cli))

\* Verbose with the comparison made strict.
VerboseAboveDebug == level > Debug

\* if self.level >= LevelFilter::Debug
Verbose == level >= Debug

\* The target as extended() renders it: three chained replacen(.., 1).
NormalisedTarget(target) ==
    Replace1(Replace1(Replace1(target, T_crunchy_cli_core, T_crunchy_cli),
                      T_progress_end, T_crunchy_cli),
             T_progress, T_crunchy_cli)

\* The line extended() prints; "ts" stands for the UTC timestamp and the
\* thread's number for the digits of its ThreadId.
ExtendedLine(t, r) ==
    <<"[", "ts", "]", " ", LevelName(r.level), " ", " ">>
        \o NormalisedTarget(r.target)
        \o <<" ", "(", ToString(t), ")", " ">> \o r.msg

\* format!(":: {}", record.args())
TerseLine(msg) == <<":", ":", " ">> \o msg

\* InterleavedLine with the prefix of the terse render.
InterleavedLinePlain(msg) == <<":", ":", " ">> \o msg

\* format!(":: → {}", msg)
InterleavedLine(msg) == <<":", ":", " ", "→", " ">> \o msg

\* What the caller does once log() has returned: progress! builds the
\* handler, stop() runs the destructor of the handler it consumed, drop() is
\* over.  h is the handlers value the caller has reached so far.
Return(t, k, h) ==
    /\ pc' = [pc EXCEPT ![t] = IF k.k = "stop" THEN "stop_drop" ELSE "idle"]
    /\ ctx' = [ctx EXCEPT ![t] = IF k.k = "stop" THEN k ELSE NoCtx]
    /\ rec' = [rec EXCEPT ![t] = NoRec]
    /\ stop' = [stop EXCEPT ![t] = FALSE]
    /\ handlers' =
        CASE k.k = "new" -> [h EXCEPT ![k.g] = NewHandler]
          [] k.k = "drop" -> [h EXCEPT ![k.g].st = "dead"]
          [] OTHER -> h

\* The arm of `match record.target()` a terse record takes.
Dispatch(target) ==
    CASE target = T_progress -> "progress_lock"
      [] target = T_progress_pause -> "pause_lock"
      [] target = T_progress_end -> "progress_lock"
      [] OTHER -> "other_lock"

\* CliLogger::log up to its first use of the slot: admission, the extended
\* render, and the choice of the match arm.
log(t, r, k, h) ==
    IF ~Admitted(r)
    THEN Return(t, k, h) /\ UNCHANGED <<sink, lock>>
    ELSE IF Verbose
    THEN /\ out' = Append(out, ExtendedLine(t, r))
         /\ Return(t, k, h)
         /\ UNCHANGED <<progress, err, above, live, finished, nextId, lock>>
    ELSE /\ pc' = [pc EXCEPT ![t] = Dispatch(r.target)]
         /\ rec' = [rec EXCEPT ![t] = r]
         /\ stop' = [stop EXCEPT ![t] = (r.target = T_progress_end)]
         /\ ctx' = [ctx EXCEPT ![t] = k]
         /\ handlers' = h
         /\ UNCHANGED <<sink, lock>>

\* self.progress.lock(): blocks until the mutex is free.
Acquire(t) ==
    /\ pc[t] \in {"progress_lock", "pause_lock", "other_lock"}
    /\ lock = 0
    /\ lock' = t
    /\ pc' = [pc EXCEPT ![t] =
                CASE pc[t] = "progress_lock" -> "progress_cs"
                  [] pc[t] = "pause_lock" -> "pause_cs"
                  [] pc[t] = "other_lock" -> "other_cs"]
    /\ UNCHANGED <<level, maxLevel, rec, stop, ctx, handlers, sink, calls>>

\* NewSpinner that starts with the hidden draw target.
NewSpinnerHidden(id, msg) == [id |-> id, msg |-> msg, hidden |-> TRUE]

\* ProgressBar::new_spinner() with draw target stdout and the message set.
NewSpinner(id, msg) == [id |-> id, msg |-> msg, hidden |-> FALSE]

\* FinalMessage where the record's message always replaces the spinner's.
FinalMessageAlwaysRecord(p, msg) == msg

\* The message a spinner is finished with: finish() keeps its message,
\* finish_with_message(msg) replaces it.
FinalMessage(p, msg) == IF msg = EmptyMsg THEN p.msg ELSE msg

\* ProgressArm where a record that does not stop replaces the spinner.
ProgressArmReplace(s, p) ==
    IF s /\ is_some(p) THEN "finish" ELSE "new"

\* The branch progress() takes: finish the spinner, print above it, or
\* construct one.
ProgressArm(s, p) ==
    IF s /\ is_some(p) THEN "finish"
    ELSE IF is_some(p) THEN "println"
    ELSE "new"

\* CliLogger::progress, from the lock taken to the guard released.
Progress(t) ==
    /\ pc[t] = "progress_cs"
    /\ lock = t
    /\ LET msg == rec[t].msg
           arm == ProgressArm(stop[t], progress) IN
        IF arm = "finish"
        THEN /\ progress' = None
             /\ live' = live \ {progress.id}
             /\ finished' = finished \cup
                    {[id |-> progress.id, msg |-> FinalMessage(progress, msg),
                      hidden |-> progress.hidden]}
             /\ UNCHANGED <<out, err, above, nextId>>
        ELSE IF arm = "println"
        THEN /\ above' = Append(above, InterleavedLine(msg))
             /\ UNCHANGED <<progress, out, err, live, finished, nextId>>
        ELSE /\ progress' = NewSpinner(nextId, msg)
             /\ live' = live \cup {nextId}
             /\ nextId' = nextId + 1
             /\ UNCHANGED <<out, err, above, finished>>
    /\ lock' = 0
    /\ Return(t, ctx[t], handlers)
    /\ UNCHANGED <<level, maxLevel, calls>>

\* Toggle that only ever hides.
ToggleHideOnly(p) == [p EXCEPT !.hidden = TRUE]

\* p.set_draw_target(if p.is_hidden() { stdout } else { hidden })
Toggle(p) == [p EXCEPT !.hidden = ~p.hidden]

\* The "progress_pause" arm.
Pause(t) ==
    /\ pc[t] = "pause_cs"
    /\ lock = t
    /\ progress' = IF is_some(progress) THEN Toggle(progress) ELSE progress
    /\ lock' = 0
    /\ Return(t, ctx[t], handlers)
    /\ UNCHANGED <<level, maxLevel, out, err, above, live, finished, nextId,
                   calls>>

\* OtherBranch where log() returns at once when the slot is empty, leaving
\* the render of its record undone.
OtherBranchReturns(r, p) ==
    IF is_some(p) THEN "progress_lock" ELSE "idle"

\* OtherBranch with `>=` for `>`: a warning goes to standard output.
OtherBranchWarnToStdout(r, p) ==
    IF is_some(p) THEN "progress_lock"
    ELSE IF r.level >= Warn THEN "normal" ELSE "error"

\* Where the `_` arm goes after `self.progress.lock().unwrap().is_some()`.
OtherBranch(r, p) ==
    IF is_some(p) THEN "progress_lock"
    ELSE IF r.level > Warn THEN "normal" ELSE "error"

\* LockAfterTest where the guard lives until the end of the if/else.
LockKept(t) == t

\* The mutex after the condition of the `if` in the `_` arm: the guard is
\* a temporary of the condition and is dropped at its end.
LockAfterTest(t) == 0

\* The `_` arm: the occupancy test and the choice it makes.
Other(t) ==
    /\ pc[t] = "other_cs"
    /\ lock = t
    /\ pc' = [pc EXCEPT ![t] = OtherBranch(rec[t], progress)]
    /\ lock' = LockAfterTest(t)
    /\ UNCHANGED <<level, maxLevel, rec, stop, ctx, handlers, sink, calls>>

\* CliLogger::normal
normal(t) ==
    /\ pc[t] = "normal"
    /\ out' = Append(out, TerseLine(rec[t].msg))
    /\ Return(t, ctx[t], handlers)
    /\ UNCHANGED <<level, maxLevel, lock, progress, err, above, live, finished,
                   nextId, calls>>

\* CliLogger::error
error(t) ==
    /\ pc[t] = "error"
    /\ err' = Append(err, TerseLine(rec[t].msg))
    /\ Return(t, ctx[t], handlers)
    /\ UNCHANGED <<level, maxLevel, lock, progress, out, above, live, finished,
                   nextId, calls>>

\* ------------------------------------------------------- producer surface
\* Lines written so far: println!, eprintln! and the spinners' print-above
\* lines.
Written == Len(out) + Len(err) + Len(above)

InFlight == Cardinality({t \in Threads : pc[t] # "idle"})

\* A thread starts a call when it is outside log(); the model stops making
\* calls at MaxCalls calls, or when the calls under way may bring the
\* lines written to MaxLines.
CanCall(t) ==
    /\ pc[t] = "idle"
    /\ calls < MaxCalls
    /\ Written + InFlight < MaxLines
\* log::info!(target: .., ..): the log crate hands the record to the sink
\* unless Info is above the process-wide maximum level.
InfoMacro(t, target, msg, k, h) ==
    IF Info <= maxLevel
    THEN log(t, [level |-> Info, target |-> target, msg |-> msg], k, h)
    ELSE Return(t, k, h) /\ UNCHANGED <<sink, lock>>

\* progress!(msg): a "progress" record, then the handler.
ProgressMacro(t, msg) ==
    /\ CanCall(t)
    /\ \E g \in Guards :
        /\ handlers[g].st = "unborn"
        /\ \A g2 \in Guards : g2 < g => handlers[g2].st # "unborn"
        /\ InfoMacro(t, T_progress, msg, [k |-> "new", g |-> g],
                     [handlers EXCEPT ![g].st = "pending"])
    /\ calls' = calls + 1
    /\ UNCHANGED <<level, maxLevel>>

\* stop() without `self.stopped = true`.
StoppedForgotten(h) == h.stopped

\* The handler's flag after `self.stopped = true`.
StoppedAfterStop(h) == TRUE

\* ProgressHandler::stop(self, msg), up to the return of its info!.
HandlerStop(t, g, msg) ==
    /\ CanCall(t)
    /\ handlers[g].st = "alive"
    /\ InfoMacro(t, T_progress_end, msg, [k |-> "stop", g |-> g],
                 [handlers EXCEPT ![g] = [st |-> "moved",
                                          stopped |-> StoppedAfterStop(@),
                                          ends |-> Append(@.ends, msg)]])
    /\ calls' = calls + 1
    /\ UNCHANGED <<level, maxLevel>>

\* Drop::drop for handler g.
Drop(t, g, h) ==
    IF ~h[g].stopped
    THEN InfoMacro(t, T_progress_end, EmptyMsg, [k |-> "drop", g |-> g],
                   [h EXCEPT ![g].ends = Append(@, EmptyMsg)])
    ELSE Return(t, [k |-> "drop", g |-> g], h) /\ UNCHANGED <<sink, lock>>

\* A handler goes out of scope without stop().
HandlerDrop(t, g) ==
    /\ CanCall(t)
    /\ handlers[g].st = "alive"
    /\ Drop(t, g, [handlers EXCEPT ![g].st = "moved"])
    /\ calls' = calls + 1
    /\ UNCHANGED <<level, maxLevel>>

\* The end of stop(): the consumed handler is destroyed.
StopDrop(t) ==
    /\ pc[t] = "stop_drop"
    /\ Drop(t, ctx[t].g, handlers)
    /\ UNCHANGED <<level, maxLevel, calls>>

\* progress_pause!()
progress_pause(t) ==
    /\ CanCall(t)
    /\ InfoMacro(t, T_progress_pause, EmptyMsg, NoCtx, handlers)
    /\ calls' = calls + 1
    /\ UNCHANGED <<level, maxLevel>>

\* The framework hands a record of any severity and target to the sink.
Record(t, l, target, msg) ==
    /\ CanCall(t)
    /\ log(t, [level |-> l, target |-> target, msg |-> msg], NoCtx, handlers)
    /\ calls' = calls + 1
    /\ UNCHANGED <<level, maxLevel>>

\* error!, warn!, info!, debug!, trace! with the default target, the module
\* path of the caller: this crate's, or another crate's.
OrdinaryTargets == {T_crunchy_cli_core, T_crunchy}

\* An ordinary severity call: the log crate hands the record to the sink
\* unless its level is above the process-wide maximum level.
SeverityMacro(t, l, target, msg) ==
    /\ CanCall(t)
    /\ IF l <= maxLevel
       THEN log(t, [level |-> l, target |-> target, msg |-> msg], NoCtx,
                handlers)
       ELSE Return(t, NoCtx, handlers) /\ UNCHANGED <<sink, lock>>
    /\ calls' = calls + 1
    /\ UNCHANGED <<level, maxLevel>>

\* The message tab_info! formats: as given when the process-wide maximum
\* level is exactly Debug, behind one horizontal tab otherwise.
TabMessage(msg) == IF maxLevel = Debug THEN msg ELSE <<"\t">> \o msg

\* tab_info!(msg), called from this crate.
tab_info(t, msg) ==
    /\ CanCall(t)
    /\ InfoMacro(t, T_crunchy_cli_core, TabMessage(msg), NoCtx, handlers)
    /\ calls' = calls + 1
    /\ UNCHANGED <<level, maxLevel>>

\* CliLogger::init(l) once a sink is installed: set_max_level(l) runs, then
\* set_boxed_logger refuses the new sink (SetLoggerError) and the installed
\* one stays.
init(l) ==
    /\ maxLevel' = l
    /\ UNCHANGED <<level, progress, lock, pc, rec, stop, ctx, handlers, out,
                   err, above, live, finished, nextId, calls>>

\* ---------------------------------------------------------- specifications
Next ==
    \E t \in Threads :
        \/ \E msg \in Msgs : ProgressMacro(t, msg)
        \/ \E g \in Guards, msg \in Msgs : HandlerStop(t, g, msg)
        \/ \E g \in Guards : HandlerDrop(t, g)
        \/ StopDrop(t)
        \/ progress_pause(t)
        \/ \E l \in Levels, target \in Targets, msg \in Msgs :
                Record(t, l, target, msg)
        \/ Acquire(t)
        \/ Progress(t)
        \/ Pause(t)
        \/ Other(t)
        \/ normal(t)
        \/ error(t)

Spec == Init /\ [][Next]_vars

\* A step of thread t inside log(), or the destructor that ends stop().
SinkStep(t) ==
    \/ Acquire(t)
    \/ Progress(t)
    \/ Pause(t)
    \/ Other(t)
    \/ normal(t)
    \/ error(t)
    \/ StopDrop(t)

\* Spec under a fair scheduler: a thread that can take a step inside log()
\* eventually takes one.
SpecFair == Spec /\ \A t \in Threads : WF_vars(SinkStep(t))

\* Only begin-progress, explicit stop and guard drop.
NextGuards ==
    \E t \in Threads :
        \/ \E msg \in Msgs : ProgressMacro(t, msg)
        \/ \E g \in Guards, msg \in Msgs : HandlerStop(t, g, msg)
        \/ \E g \in Guards : HandlerDrop(t, g)
        \/ StopDrop(t)
        \/ Acquire(t)
        \/ Progress(t)

SpecGuards == Init /\ [][NextGuards]_vars

\* A second initialize call and indented-info emission.
NextInit ==
    \/ \E l \in LevelFilters : init(l)
    \/ \E t \in Threads :
        \/ \E msg \in Msgs : tab_info(t, msg)
        \/ Acquire(t)
        \/ Other(t)
        \/ normal(t)

SpecInit == Init /\ [][NextInit]_vars

\* Records only from this module's producer surface and from ordinary
\* severity calls, with further initialize calls.
NextSurface ==
    \/ \E l \in LevelFilters : init(l)
    \/ \E t \in Threads :
        \/ \E msg \in Msgs : ProgressMacro(t, msg)
        \/ \E g \in Guards, msg \in Msgs : HandlerStop(t, g, msg)
        \/ \E g \in Guards : HandlerDrop(t, g)
        \/ progress_pause(t)
        \/ \E msg \in Msgs : tab_info(t, msg)
        \/ \E l \in Levels, target \in OrdinaryTargets, msg \in Msgs :
                SeverityMacro(t, l, target, msg)
        \/ SinkStep(t)

SpecSurface == Init /\ [][NextSurface]_vars

TypeOK ==
    /\ level \in LevelFilters
    /\ lock \in Threads \cup {0}
    /\ calls \in 0 .. MaxCalls
    /\ Written <= MaxLines

\* ------------------------------------------------------------------ claims
Idle == \A t \in Threads : pc[t] = "idle"

\* Thread t takes the step that leaves program point p.
Leaves(t, p) == pc[t] = p /\ pc'[t] # p

\* C1: in terse mode a "progress_end" record processed while the slot is
\* empty changes nothing: the slot stays empty, no spinner is constructed,
\* nothing is written.
C1_EndOnEmptyIsNoOp ==
    [][\A t \in Threads :
        (/\ level < Debug
         /\ Leaves(t, "progress_cs")
         /\ rec[t].target = T_progress_end
         /\ progress.id = 0)
        => UNCHANGED <<progress, out, err, above, live, finished, nextId>>]_vars

\* C2: in terse mode, with only begin-progress, stop and drop, once every
\* handler handed out has been stopped or dropped and its record processed,
\* the slot is empty.
C2_AllGuardsDoneSlotEmpty ==
    (/\ level < Debug
     /\ Idle
     /\ \A g \in Guards : handlers[g].st \in {"unborn", "dead"})
    => progress.id = 0

\* C3: at most one spinner is live, and the live spinner is the one in the
\* slot: a spinner taken out of the slot is finished in the same step.
C3_AtMostOneLive ==
    /\ Cardinality(live) <= 1
    /\ live = (IF progress.id = 0 THEN {} ELSE {progress.id})

C3_Witness == finished # {} /\ Cardinality(live) = 1

\* C4: a handler emits exactly one "progress_end" record in its lifetime:
\* none before it is stopped or dropped, one once it is, carrying the
\* message of stop() or the empty message of drop(), and never a second.
C4_ExactlyOneEnd ==
    /\ \A g \in Guards :
        /\ Len(handlers[g].ends) <= 1
        /\ handlers[g].st \in {"unborn", "pending", "alive"}
            => handlers[g].ends = <<>>
        /\ handlers[g].st \in {"moved", "dead"} => Len(handlers[g].ends) = 1
        /\ (handlers[g].st \in {"moved", "dead"} /\ ~handlers[g].stopped)
            => handlers[g].ends = <<EmptyMsg>>
    /\ \A t \in Threads :
        (ctx[t].k \in {"stop", "drop"} /\ pc[t] # "stop_drop")
        => /\ rec[t].target = T_progress_end
           /\ handlers[ctx[t].g].ends = <<rec[t].msg>>

C4_Witness ==
    \E g1, g2 \in Guards :
        /\ handlers[g1].st = "dead" /\ handlers[g1].stopped
        /\ handlers[g1].ends = << <<"m">> >>
        /\ handlers[g2].st = "dead" /\ ~handlers[g2].stopped

\* C5: in terse mode a record whose target is not a reserved tag never
\* turns an empty slot into an occupied one.
C5_OrdinaryNeverConstructs ==
    [][\A t \in Threads :
        (/\ level < Debug
         /\ pc[t] # "idle"
         /\ rec[t].target \notin ReservedTargets
         /\ pc'[t] # pc[t])
        => ~(progress.id = 0 /\ progress'.id # 0)]_vars

\* C6: in terse mode, an admitted record with a non-reserved target that
\* finds the slot empty is written as one line ":: <message>" to standard
\* output when its severity is above Warn and to standard error otherwise,
\* nothing goes to the other stream, and the record leaves the slot alone.
C6_TerseStreams ==
    [][\A t \in Threads :
        /\ (Leaves(t, "other_cs") /\ progress.id = 0)
            => /\ pc'[t] = (IF rec[t].level > Warn THEN "normal" ELSE "error")
               /\ UNCHANGED <<progress, out, err, above, live, finished>>
        /\ Leaves(t, "normal")
            => /\ rec[t].level > Warn
               /\ out' = Append(out, <<":", ":", " ">> \o rec[t].msg)
               /\ UNCHANGED <<progress, err, above, live, finished>>
        /\ Leaves(t, "error")
            => /\ rec[t].level <= Warn
               /\ err' = Append(err, <<":", ":", " ">> \o rec[t].msg)
               /\ UNCHANGED <<progress, out, above, live, finished>>]_vars

C6_Witness ==
    /\ level = Info
    /\ Idle
    /\ progress.id = 0
    /\ Len(err) = 1
    /\ Len(out) = 1

\* A line of the extended render: "[<timestamp>] <LEVEL>  <target> (..".
IsExtendedLine(line) ==
    /\ Len(line) >= 7
    /\ SubSeq(line, 1, 4) = <<"[", "ts", "]", " ">>
    /\ line[5] \in {"ERROR", "WARN", "INFO", "DEBUG", "TRACE"}

\* The step writes exactly one line, an extended one, to standard output.
WritesOneExtended ==
    /\ Len(out') = Len(out) + 1
    /\ SubSeq(out', 1, Len(out)) = out
    /\ IsExtendedLine(out'[Len(out')])

\* C7: in verbose mode the slot stays empty and no spinner is constructed,
\* nothing is written to standard error or above a spinner, no line starts
\* with "::", and every admitted record is written by the extended render
\* to standard output (a record that is not admitted writes nothing).
C7_VerboseNeverSpins ==
    /\ [](level >= Debug =>
            /\ progress = None
            /\ live = {} /\ finished = {} /\ nextId = 1
            /\ err = <<>> /\ above = <<>>
            /\ \A i \in 1 .. Len(out) :
                /\ IsExtendedLine(out[i])
                /\ SubSeq(out[i], 1, 2) # <<":", ":">>)
    /\ [][(level >= Debug /\ calls' # calls) =>
            \A t \in Threads :
                /\ \A l \in Levels, target \in Targets, msg \in Msgs :
                    \/ IF l <= level /\ (target \in ReservedTargets
                                         \/ StartsWith(target, T_crunchy_cli))
                       THEN out' = Append(out, ExtendedLine(t,
                                [level |-> l, target |-> target, msg |-> msg]))
                       ELSE out' = out
                    \/ ~Record(t, l, target, msg)
                /\ ((\E msg \in Msgs : ProgressMacro(t, msg))
                    \/ (\E g \in Guards, msg \in Msgs : HandlerStop(t, g, msg))
                    \/ (\E g \in Guards : HandlerDrop(t, g))
                    \/ progress_pause(t))
                    => WritesOneExtended]_vars

C7_Witness ==
    /\ level = Debug
    /\ Len(out) = 2
    /\ \E g \in Guards : handlers[g].st = "dead"

\* C8: a record whose severity is above the configured level, or whose
\* target is neither a reserved tag nor begins with "crunchy_cli", is
\* dropped: log returns at once, nothing is written, the slot is untouched.
\* Any other record is taken up (rendered at once in verbose mode, sent to
\* its match arm in terse mode).
C8_Admission ==
    [][calls' # calls =>
       \A t \in Threads, l \in Levels, target \in Targets, msg \in Msgs :
        \/ IF l <= level /\ (target \in ReservedTargets
                             \/ StartsWith(target, T_crunchy_cli))
           THEN (pc'[t] # "idle" \/ Len(out') = Len(out) + 1)
           ELSE /\ pc'[t] = "idle"
                /\ UNCHANGED <<progress, out, err, above, live, finished,
                               nextId, lock>>
        \/ ~Record(t, l, target, msg)]_vars

C8_Witness ==
    /\ level = Trace
    /\ calls = 2
    /\ Idle
    /\ out = <<>>

\* C9: in terse mode a "progress_pause" record leaves an empty slot as it
\* is; on an occupied slot it flips hidden and keeps the spinner and its
\* message, and a second pause right after it gives the first state back.
C9_PauseToggles ==
    [][\A t \in Threads :
        Leaves(t, "pause_cs")
        => /\ UNCHANGED <<out, err, above, live, finished, nextId>>
           /\ IF progress.id = 0 THEN progress' = progress
              ELSE /\ progress'.id = progress.id
                   /\ progress'.msg = progress.msg
                   /\ progress'.hidden = ~progress.hidden
                   /\ Toggle(progress') = progress]_vars

C9_Witness == progress.id # 0 /\ progress.hidden

\* C10: in terse mode a "progress" record processed while the slot is
\* occupied leaves the spinner in the slot as it is and hands the line
\* ":: → <message>" to the spinner's print-above.
C10_OccupiedInterleaves ==
    [][\A t \in Threads :
        (/\ Leaves(t, "progress_cs")
         /\ rec[t].target = T_progress
         /\ progress.id # 0)
        => /\ progress' = progress
           /\ above' = Append(above, <<":", ":", " ", "→", " ">> \o rec[t].msg)
           /\ UNCHANGED <<out, err, live, finished, nextId>>]_vars

C10_Witness ==
    /\ progress.id # 0
    /\ Len(above) = 1
    /\ \A g \in Guards : handlers[g].st = "alive"

\* C11: a second initialize call leaves the configured verbosity as it was:
\* the level of the installed sink and the process-wide maximum level.
C11_VerbosityImmutable ==
    [][level' = level /\ maxLevel' = maxLevel]_vars

\* C12: with the sink installed at a verbose level (Debug or Trace) the
\* record of an indented info carries the message as given, like a plain
\* info; installed at Info it carries the message behind one tab.
C12_TabOnlyInTerse ==
    [][\A t \in Threads, msg \in Msgs :
        (maxLevel = level /\ tab_info(t, msg))
        => IF level >= Debug
           THEN out' = Append(out, ExtendedLine(t,
                    [level |-> Info, target |-> T_crunchy_cli_core,
                     msg |-> msg]))
           ELSE IF level = Info
           THEN rec'[t].msg = <<"\t">> \o msg
           ELSE TRUE]_vars

\* Thread t is past the occupancy test of the `_` arm and has not yet taken
\* the action chosen from it.
BetweenTestAndAction(t) ==
    /\ ~IsReserved(rec[t].target)
    /\ pc[t] \in {"progress_lock", "normal", "error"}

\* C13: for an ordinary record in terse mode the occupancy test and the
\* action chosen from it are one critical section: while a thread is between
\* the two, no other thread's record changes the slot.
C13_TestAndActionAtomic ==
    [][\A t \in Threads :
        (BetweenTestAndAction(t) /\ pc'[t] = pc[t]) => progress' = progress]_vars

\* C14: in terse mode a record is written to standard error or rendered
\* tersely on standard output only when the slot is empty; while the slot is
\* occupied an ordinary record of any severity is printed above the spinner.
C14_OccupiedNeverStderr ==
    [][\A t \in Threads :
        /\ (error(t) \/ normal(t)) => ~is_some(progress)
        /\ (BetweenTestAndAction(t) /\ Progress(t)) =>
               above' = Append(above, InterleavedLine(rec[t].msg))]_vars

\* C15: in terse mode "progress_end" on an occupied slot empties the slot
\* and finishes the spinner; an empty record message keeps the message the
\* spinner was created with, a non-empty one replaces it.  A spinner's
\* message never changes while it occupies the slot.
C15_EndFinishes ==
    [][/\ \A t \in Threads :
            (pc[t] = "progress_cs" /\ stop[t] /\ progress.id # 0 /\ Progress(t))
            => /\ progress' = None
               /\ progress.id \notin live'
               /\ \E f \in finished' \ finished :
                    /\ f.id = progress.id
                    /\ f.msg = IF rec[t].msg = <<>> THEN progress.msg
                               ELSE rec[t].msg
       /\ (progress'.id = progress.id) => (progress'.msg = progress.msg)]_vars

\* One begin-progress and one drop of its guard have run: the spinner is
\* finished and still shows the message it was created with.
C15_Witness ==
    /\ Idle
    /\ calls = 2
    /\ progress = None
    /\ \E g \in Guards : handlers[g].st = "dead" /\ handlers[g].ends = <<EmptyMsg>>
    /\ \E f \in finished : f.msg = <<"m">>

\* C19: a spinner constructed by progress() starts visible and carries the
\* constructing record's message, whatever happened to earlier spinners.
C19_NewSpinnerVisible ==
    [][\A t \in Threads :
        (pc[t] = "progress_cs" /\ progress.id = 0 /\ Progress(t))
        => /\ progress'.id # 0
           /\ progress'.id \notin live
           /\ progress'.hidden = FALSE
           /\ progress'.msg = rec[t].msg]_vars

\* A spinner was finished while hidden and a later one occupies the slot,
\* visible.
C19_Witness ==
    /\ \E f \in finished : f.hidden
    /\ progress.id # 0
    /\ ~progress.hidden
    /\ \A f \in finished : f.id < progress.id

\* The target field of a line printed by extended(): what stands between
\* the two spaces after the level and the space before the thread id.
LineTarget(line) ==
    LET k == CHOOSE i \in 8 .. Len(line) :
                 line[i] = " " /\ \A j \in 8 .. (i - 1) : line[j] # " "
    IN SubSeq(line, 8, k - 1)

\* C16: in verbose mode a record with one of the three reserved targets is
\* printed with the target field exactly "crunchy_cli", and a target that
\* begins with "crunchy_cli_core" is printed with that prefix replaced by
\* "crunchy_cli".
C16_TargetNormalised ==
    [][\A t \in Threads, l \in Levels, target \in Targets, msg \in Msgs :
        (level >= Debug /\ out' # out /\ Record(t, l, target, msg))
        => LET field == LineTarget(out'[Len(out')]) IN
            /\ IsReserved(target) => field = T_crunchy_cli
            /\ StartsWith(target, T_crunchy_cli_core) =>
                 field = T_crunchy_cli \o
                     SubSeq(target, Len(T_crunchy_cli_core) + 1, Len(target))]_vars

\* Thread t is outside log(): between two calls, or in stop() after its
\* info! has returned.
Outside(t) == pc[t] \in {"idle", "stop_drop"}

\* C17: log() returns only after the effect of its record is applied, and a
\* thread hands its next record to log() only after the previous call has
\* returned: the step by which a terse call returns is the step that writes
\* its line or changes the slot, and a thread never has two records under way.
C17_EffectBeforeReturn ==
    [][\A t \in Threads :
        /\ (~Outside(t) /\ Outside(t)') =>
              CASE pc[t] = "progress_cs" ->
                      \/ progress' # progress
                      \/ above' = Append(above, InterleavedLine(rec[t].msg))
                [] pc[t] = "pause_cs" ->
                      progress.id # 0 => progress'.hidden # progress.hidden
                [] pc[t] = "normal" ->
                      out' = Append(out, TerseLine(rec[t].msg))
                [] pc[t] = "error" ->
                      err' = Append(err, TerseLine(rec[t].msg))
                [] OTHER -> FALSE
        /\ (rec'[t] # rec[t] /\ rec'[t] # NoRec) => (Outside(t) /\ rec[t] = NoRec)
        /\ Outside(t)' => rec'[t] = NoRec]_vars

\* Two calls have returned in terse mode: the first constructed a spinner,
\* the second printed its line above it.
C17_Witness ==
    /\ Idle
    /\ calls = 2
    /\ progress.id # 0
    /\ above = <<InterleavedLine(<<"m">>)>>

\* Thread t waits for the slot lock.
Waits(t) == pc[t] \in {"progress_lock", "pause_lock", "other_lock"}

\* C18: a log call never waits for the slot lock while it holds it, and
\* under a fair scheduler every log call eventually returns.
C18_EveryCallReturns ==
    /\ [](\A t \in Threads : Waits(t) => lock # t)
    /\ \A t \in Threads : (~Outside(t)) ~> Outside(t)

\* A thread past the occupancy test of the `_` arm waits to take the lock
\* again for progress() while another thread holds it.
C18_Witness ==
    \E t \in Threads :
        /\ pc[t] = "progress_lock"
        /\ ~IsReserved(rec[t].target)
        /\ lock \in Threads \ {t}

\* C20: with the sink configured at Warn or Error and records only from the
\* producer surface and ordinary severity calls, the slot is always empty,
\* no spinner ever exists and nothing is written to standard output.
C20_QuietBelowInfo ==
    level \in {Error, Warn} =>
        /\ progress = None
        /\ live = {}
        /\ finished = {}
        /\ out = <<>>
        /\ above = <<>>

\* At Warn a guard has been created and destroyed and a record has been
\* written to standard error.
C20_Witness ==
    /\ level = Warn
    /\ \E g \in Guards : handlers[g].st = "dead"
    /\ Len(err) = 1

====
